---- MODULE Spec2Model ----
(***************************************************************************)
(* Model of the notebook "10 - Create a Batch Inferencing Service".        *)
(*                                                                         *)
(* Three specifications share the definitions below:                       *)
(*   SpecEntry  the entry script batch_diabetes.py (init, run) on the      *)
(*              workers, called with arbitrary mini-batches;               *)
(*   SpecStep   the parallel run step: two nodes, mini-batches of the      *)
(*              uploaded files, rows appended to one collated file, and    *)
(*              the parsing of that file by the retrieval cell;            *)
(*   Spec       the notebook's cells, run top to bottom against the        *)
(*              workspace (registry, datastore, compute, pipeline runs).   *)
(*                                                                         *)
(* Text is a sequence of one-character strings, so that formatting,        *)
(* splitting and parsing are computed and not assumed.                     *)
(***************************************************************************)
EXTENDS Integers, Sequences, FiniteSets, TLC

VARIABLES
    registry,   \* model registry of the workspace: name -> registered model, or Unbound
    files,      \* files a worker can read: path (text) -> contents (text)
    written,    \* for each path of files, the table row it was written from
    wmodel,     \* per node: the entry script's global `model`
    wloads,     \* per node: how many times init() has loaded the model
    wlast,      \* per node: the last call of run(): its mini-batch and what it returned
    dataset,    \* the input dataset of the parallel run step: a list of paths
    pos,        \* how many files of dataset have been dealt to the nodes
    wbatch,     \* per node: the mini-batch it has been dealt and has not yet run
    wout,       \* per node: the list run() returned, not yet appended to the output
    passed,     \* the mini-batches that have been passed to run(), in order
    outfile,    \* the rows of the collated output file parallel_run_step.txt
    stepDone,   \* the parallel run step has finished
    df,         \* the table the retrieval cell parsed from the output file
    pc,         \* the notebook: the cell that runs next
    ops,        \* the notebook: the operations that have finished, in order
    localBatch, \* the local folder ./batch-data: file name -> contents
    sampled,    \* the rows drawn by sample(n=100), in order
    datastore,  \* the folder batch-data/ of the default datastore: name -> contents
    batch_data_set,    \* the notebook's variable batch_data_set
    cluster,           \* the workspace's compute target of the configured name
    inference_cluster, \* the notebook's variable inference_cluster
    caught,     \* the exceptions the notebook's except clauses have caught
    runs,       \* the pipeline runs of the workspace, by run id
    pipeline_run,           \* the notebook's variable pipeline_run (a run id, 0 unbound)
    published,              \* the pipeline has been published
    run_id,                 \* the notebook's variable run_id (0 unbound)
    published_pipeline_run, \* the notebook's variable published_pipeline_run
    shown,      \* what the last retrieval cell downloaded and displays
    uncaught,   \* the exception that stopped the notebook, if one did
    trainRun,     \* the training run: its uploaded outputs, its status, its calls
    result_file,  \* the notebook's variable result_file (a path, or not bound)
    localResults, \* the local folder diabetes-results: the files in it
    retrievals,   \* how many retrieval cells have started
    stdout        \* what the data cell has printed

envVars == <<registry, files, written>>
workerVars == <<wmodel, wloads, wlast>>
stepVars == <<dataset, pos, wbatch, wout, passed, outfile, stepDone, df>>

nbVars == <<pc, ops, localBatch, sampled, datastore, batch_data_set, cluster,
            inference_cluster, caught, runs, pipeline_run, published, run_id,
            published_pipeline_run, shown, uncaught,
            trainRun, result_file, localResults, retrievals, stdout>>

vars == <<registry, files, written, wmodel, wloads, wlast,
          dataset, pos, wbatch, wout, passed, outfile, stepDone, df,
          pc, ops, localBatch, sampled, datastore, batch_data_set, cluster,
          inference_cluster, caught, runs, pipeline_run, published, run_id,
          published_pipeline_run, shown, uncaught,
          trainRun, result_file, localResults, retrievals, stdout>>

-----------------------------------------------------------------------------
(* Bounds of the model. *)

\* longest mini-batch the entry script is called with in SpecEntry
MaxBatch == 2
\* rows of the diabetes table that are modelled
PopulationSize == 2

\* files of the input dataset in SpecStep
NumFiles == 11
\* rows drawn by sample(n=100) and files saved by range(100), in Spec
SampleSize == 2

(* Program constants. *)

\* mini_batch_size="5"
MiniBatchSize == 5

\* the 8 feature columns
NumFeatures == 8
\* node_count=2
NodeCount == 2

Nodes == 1..NodeCount

None == "none"
NaN == -1
\* a name that is not bound to a model
Unbound == [feature |-> 0, threshold |-> 0]

-----------------------------------------------------------------------------
(* Text. *)

Digit(d) ==
    CASE d = 0 -> "0" [] d = 1 -> "1" [] d = 2 -> "2" [] d = 3 -> "3" [] d = 4 -> "4"
      [] d = 5 -> "5" [] d = 6 -> "6" [] d = 7 -> "7" [] d = 8 -> "8" [] d = 9 -> "9"

DigitValue(c) ==
    CASE c = "0" -> 0 [] c = "1" -> 1 [] c = "2" -> 2 [] c = "3" -> 3 [] c = "4" -> 4
      [] c = "5" -> 5 [] c = "6" -> 6 [] c = "7" -> 7 [] c = "8" -> 8 [] c = "9" -> 9
      [] OTHER -> NaN

\* str(n) of a non-negative integer
RECURSIVE Str(_)
Str(n) == IF n < 10 THEN <<Digit(n)>> ELSE Str(n \div 10) \o <<Digit(n % 10)>>

\* sep.join(parts)
RECURSIVE Join(_, _)
Join(parts, sep) ==
    IF parts = <<>> THEN <<>>
    ELSE IF Len(parts) = 1 THEN parts[1]
    ELSE parts[1] \o sep \o Join(Tail(parts), sep)

\* index of the first c in s, 0 when there is none
RECURSIVE IndexOf(_, _, _)
IndexOf(s, c, i) ==
    IF i > Len(s) THEN 0 ELSE IF s[i] = c THEN i ELSE IndexOf(s, c, i + 1)

\* s.split(c): the fields of s between the occurrences of c
RECURSIVE Split(_, _)
Split(s, c) ==
    LET i == IndexOf(s, c, 1)
    IN  IF i = 0 THEN <<s>>
        ELSE <<SubSeq(s, 1, i - 1)>> \o Split(SubSeq(s, i + 1, Len(s)), c)

\* a field read as a number: NaN unless it is a non-empty run of digits
RECURSIVE ParseDigits(_, _)
ParseDigits(s, acc) ==
    IF s = <<>> THEN acc
    ELSE IF DigitValue(Head(s)) = NaN THEN NaN
    ELSE ParseDigits(Tail(s), 10 * acc + DigitValue(Head(s)))

ParseNum(s) == IF s = <<>> THEN NaN ELSE ParseDigits(s, 0)

CSV == <<".", "c", "s", "v">>

-----------------------------------------------------------------------------
(* The data and the trained model. *)

\* The diabetes table: the 8 feature columns of row r, and its Diabetic label.
FeatureRow(r) == [j \in 1..NumFeatures |-> (r * j + r) % 10]
Label(r) == r % 2

\* a row of diabetes2.csv: PatientID, the 8 features, Diabetic
TableRow(r) == <<r>> \o FeatureRow(r) \o <<Label(r)>>
\* the table has more rows than are sampled
TableSize == SampleSize + 1

\* A trained classifier is modelled by a decision stump on one feature.
Models == {[feature |-> 2, threshold |-> t] : t \in {3, 6}}
\* another model of the registry, registered under another name
OtherModel == [feature |-> 4, threshold |-> 5]
ModelNames == {"diabetes_model", "other_model"}

\* model.predict raises ValueError for a row that does not have the 8 features
\* the model was fitted on, or that holds a NaN
predictRaises(row) ==
    Len(row) # NumFeatures \/ \E j \in 1..Len(row) : row[j] = NaN

\* model.predict on one row: the class label
predict(m, row) == IF row[m.feature] >= m.threshold THEN 1 ELSE 0

\* ndarray.tofile(path, sep=","): the values of one row, comma-separated
tofile(row) == Join([j \in 1..Len(row) |-> Str(row[j])], <<",">>)

-----------------------------------------------------------------------------
(* The entry script batch_diabetes.py. *)

\* Model.get_model_path(name) then joblib.load: the registered model of that name
get_model(reg, name) == reg[name]

\* init(): binds the global `model` to the registered model 'diabetes_model'
init(reg) == get_model(reg, "diabetes_model")

\* os.path.basename(p): what follows the last '/'
RECURSIVE LastSlash(_, _)
LastSlash(p, i) == IF i = 0 THEN 0 ELSE IF p[i] = "/" THEN i ELSE LastSlash(p, i - 1)

basename(p) == SubSeq(p, LastSlash(p, Len(p)) + 1, Len(p))

\* np.genfromtxt(f, delimiter=',') then reshape(1, -1): the values of the file
\* as one row
genfromtxt(fs, f) ==
    LET fields == Split(fs[f], ",")
    IN  [j \in 1..Len(fields) |-> ParseNum(fields[j])]

formatTwoColons(name, label) == name \o <<":", " ", "c", ":">> \o Str(label)

\* "{}: {}".format(name, label)
format(name, label) == name \o <<":", " ">> \o Str(label)

\* One pass of the loop body of run() for file f: the exception it raises (None
\* when it raises nothing) and the string it appends to resultList.
scoreFile(m, fs, f) ==
    IF f \notin DOMAIN fs THEN [raised |-> "IOError", text |-> <<>>]
    ELSE IF m = Unbound THEN [raised |-> "NameError", text |-> <<>>]
    ELSE LET data == genfromtxt(fs, f)
         IN  IF predictRaises(data) THEN [raised |-> "ValueError", text |-> <<>>]
             ELSE [raised |-> None, text |-> format(basename(f), predict(m, data))]

RECURSIVE runLoopPrepend(_, _, _, _)
runLoopPrepend(m, fs, mb, resultList) ==
    IF mb = <<>> THEN [raised |-> None, resultList |-> resultList]
    ELSE LET s == scoreFile(m, fs, Head(mb))
         IN  IF s.raised # None THEN [raised |-> s.raised, resultList |-> <<>>]
             ELSE runLoopPrepend(m, fs, Tail(mb), <<s.text>> \o resultList)

RECURSIVE runLoop(_, _, _, _)
runLoop(m, fs, mb, resultList) ==
    IF mb = <<>> THEN [raised |-> None, resultList |-> resultList]
    ELSE LET s == scoreFile(m, fs, Head(mb))
         IN  IF s.raised # None THEN [raised |-> s.raised, resultList |-> <<>>]
             ELSE runLoop(m, fs, Tail(mb), Append(resultList, s.text))

modelAfterRunRebound(m) == OtherModel

\* What the global `model` is bound to after a call of run(): run() only reads it.
modelAfterRun(m) == m

\* run(mini_batch): the returned list (or the exception), and the global after it
run(m, fs, mb) ==
    LET r == runLoop(m, fs, mb, <<>>)
    IN  [raised |-> r.raised, resultList |-> r.resultList, model |-> modelAfterRun(m)]

-----------------------------------------------------------------------------
(* SpecEntry: the entry script on each worker, called with any mini-batch.   *)

FileName(i) == Str(i) \o CSV

\* the files a worker may be handed: a directory and a name
EntryFiles == {[dir |-> <<"/", "d", "/">>, name |-> FileName(1)],
               [dir |-> <<"/", "e", "/">>, name |-> FileName(1)],
               [dir |-> <<>>, name |-> FileName(2)]}

PathOf(e) == e.dir \o e.name
EntryPaths == {PathOf(e) : e \in EntryFiles}

\* the mini-batches: every list of at most MaxBatch paths, the empty one included
MiniBatches == UNION {[1..k -> EntryPaths] : k \in 0..MaxBatch}

NoCall == [mb |-> <<>>, raised |-> "nocall", resultList |-> <<>>]

\* rowOf[p] is the table row written to p, or 0 when p does not exist
FilesFrom(rowOf) ==
    [p \in {q \in DOMAIN rowOf : rowOf[q] # 0} |-> tofile(FeatureRow(rowOf[p]))]

NoTable == [raised |-> "notread", columns |-> <<>>, rows |-> <<>>]

StepIdle ==
    /\ dataset = <<>>
    /\ pos = 0
    /\ wbatch = [n \in Nodes |-> <<>>]
    /\ wout = [n \in Nodes |-> <<>>]
    /\ passed = <<>>
    /\ outfile = <<>>
    /\ stepDone = FALSE
    /\ df = NoTable

\* no compute target of the configured name
NoCluster == [state |-> "absent", max_nodes |-> 0, createdBy |-> "none"]

NoException == [cell |-> "none", exc |-> "none"]

\* the training run before experiment.start_logging()
NoTrainRun == [outputs |-> {}, status |-> "none", log |-> <<>>, fitted |-> Unbound]

\* result_file before any retrieval cell has bound it
NoPath == [dir |-> 0, name |-> <<>>]

NothingShown == [run |-> 0, step |-> "none", output |-> "none", file |-> NoPath, rows |-> <<>>]

NotebookIdle ==
    /\ pc = "idle"
    /\ ops = <<>>
    /\ localBatch = <<>>
    /\ sampled = <<>>
    /\ datastore = <<>>
    /\ batch_data_set = "unbound"
    /\ cluster = NoCluster
    /\ inference_cluster = "unbound"
    /\ caught = <<>>
    /\ runs = <<>>
    /\ pipeline_run = 0
    /\ published = FALSE
    /\ run_id = 0
    /\ published_pipeline_run = 0
    /\ shown = NothingShown
    /\ uncaught = NoException
    /\ trainRun = NoTrainRun
    /\ result_file = NoPath
    /\ localResults = {}
    /\ retrievals = 0
    /\ stdout = <<>>

WorkersIdle ==
    /\ wmodel = [n \in Nodes |-> Unbound]
    /\ wloads = [n \in Nodes |-> 0]
    /\ wlast = [n \in Nodes |-> NoCall]

InitEntry ==
    /\ \E m \in Models :
          registry = [x \in ModelNames |->
                        IF x = "diabetes_model" THEN m ELSE OtherModel]
    /\ \E rowOf \in [EntryPaths -> 0..PopulationSize] :
          /\ files = FilesFrom(rowOf)
          /\ written = rowOf
    /\ WorkersIdle
    /\ StepIdle
    /\ NotebookIdle

\* The step is initialized on node n: init() runs, once per worker process.
WorkerInit(n) ==
    /\ wloads[n] = 0
    /\ wmodel' = [wmodel EXCEPT ![n] = init(registry)]
    /\ wloads' = [wloads EXCEPT ![n] = @ + 1]
    /\ UNCHANGED <<envVars, wlast, stepVars, nbVars>>

\* run(mb) is called on node n, which has been initialized.
WorkerRun(n, mb) ==
    /\ wloads[n] > 0
    /\ LET r == run(wmodel[n], files, mb)
       IN  /\ wlast' = [wlast EXCEPT ![n] =
                          [mb |-> mb, raised |-> r.raised, resultList |-> r.resultList]]
           /\ wmodel' = [wmodel EXCEPT ![n] = r.model]
    /\ UNCHANGED <<envVars, wloads, stepVars, nbVars>>

\* SpecEntry follows one worker process: the workers share no state.
EntryNode == 1

NextEntry ==
    \/ WorkerInit(EntryNode)
    \/ \E mb \in MiniBatches : WorkerRun(EntryNode, mb)

SpecEntry == InitEntry /\ [][NextEntry]_vars

\* the name of the file at path p, as the path was built
NameOfPath(p) == (CHOOSE e \in EntryFiles : PathOf(e) = p).name

\* C1: a call of run(mini_batch) on which no file fails returns one string per
\* input file, in the order of the input, entry i being the name of file i,
\* ": ", and the model's prediction for the row that file i was written from.
C1_RunOnePerFileInOrder ==
    \A n \in Nodes :
        wlast[n].raised = None =>
            LET mb == wlast[n].mb
                res == wlast[n].resultList
            IN  /\ Len(res) = Len(mb)
                /\ \A i \in 1..Len(mb) :
                      res[i] = NameOfPath(mb[i]) \o <<":", " ">>
                                 \o Str(predict(wmodel[n], FeatureRow(written[mb[i]])))

\* a call returned for two different files, the first one in a directory
C1_Witness ==
    \E n \in Nodes :
        /\ wlast[n].raised = None
        /\ Len(wlast[n].mb) >= 2
        /\ wlast[n].mb[1] # wlast[n].mb[2]
        /\ LastSlash(wlast[n].mb[1], Len(wlast[n].mb[1])) > 0
        /\ wlast[n].resultList[1] # wlast[n].resultList[2]

-----------------------------------------------------------------------------
(* SpecStep: the parallel run step on two nodes, and the parsing of its      *)
(* collated output by the retrieval cell.                                    *)

\* the folder the input dataset is mounted at on a node
MountDir == <<"/", "d", "/">>

\* the file dataset: the uploaded files, in listing order
InputDataset == [i \in 1..NumFiles |-> MountDir \o FileName(i)]

\* mini_batch_size="5": the next mini-batch of a file dataset is its next 5
\* files, or the files that are left
MiniBatch(ds, p) ==
    SubSeq(ds, p + 1, IF p + MiniBatchSize < Len(ds) THEN p + MiniBatchSize ELSE Len(ds))

summary_only(out, resultList) == out

\* output_action="append_row": each element of the list that run() returned
\* becomes one row of the collated file
append_row(out, resultList) == out \o resultList

InitStep ==
    /\ \E m \in Models :
          registry = [x \in ModelNames |->
                        IF x = "diabetes_model" THEN m ELSE OtherModel]
    /\ \E k \in 1..PopulationSize :
          LET rowOf == [p \in {InputDataset[i] : i \in 1..NumFiles} |->
                          (((CHOOSE i \in 1..NumFiles : InputDataset[i] = p) + k)
                              % PopulationSize) + 1]
          IN  /\ files = FilesFrom(rowOf)
              /\ written = rowOf
    /\ WorkersIdle
    /\ dataset = InputDataset
    /\ pos = 0
    /\ wbatch = [n \in Nodes |-> <<>>]
    /\ wout = [n \in Nodes |-> <<>>]
    /\ passed = <<>>
    /\ outfile = <<>>
    /\ stepDone = FALSE
    /\ df = NoTable
    /\ NotebookIdle

\* An initialized, idle node is dealt the next mini-batch.
TakeMiniBatch(n) ==
    /\ wloads[n] > 0
    /\ wbatch[n] = <<>> /\ wout[n] = <<>>
    /\ pos < Len(dataset)
    /\ wbatch' = [wbatch EXCEPT ![n] = MiniBatch(dataset, pos)]
    /\ pos' = pos + Len(MiniBatch(dataset, pos))
    /\ UNCHANGED <<envVars, workerVars, dataset, wout, passed, outfile, stepDone, df,
                   nbVars>>

\* Node n calls run() on the mini-batch it was dealt.
StepRun(n) ==
    /\ wbatch[n] # <<>>
    /\ LET r == run(wmodel[n], files, wbatch[n])
       IN  /\ wlast' = [wlast EXCEPT ![n] =
                          [mb |-> wbatch[n], raised |-> r.raised,
                           resultList |-> r.resultList]]
           /\ wmodel' = [wmodel EXCEPT ![n] = r.model]
           /\ wout' = [wout EXCEPT ![n] = r.resultList]
    /\ passed' = Append(passed, wbatch[n])
    /\ wbatch' = [wbatch EXCEPT ![n] = <<>>]
    /\ UNCHANGED <<envVars, wloads, dataset, pos, outfile, stepDone, df,
                   nbVars>>

\* The list node n returned is collated into the output file.
AppendRows(n) ==
    /\ wout[n] # <<>>
    /\ outfile' = append_row(outfile, wout[n])
    /\ wout' = [wout EXCEPT ![n] = <<>>]
    /\ UNCHANGED <<envVars, workerVars, dataset, pos, wbatch, passed, stepDone, df,
                   nbVars>>

\* Every file has been dealt, run and collated: the step finishes.
StepFinish ==
    /\ ~stepDone
    /\ pos = Len(dataset)
    /\ \A n \in Nodes : wbatch[n] = <<>> /\ wout[n] = <<>>
    /\ stepDone' = TRUE
    /\ UNCHANGED <<envVars, workerVars, dataset, pos, wbatch, wout, passed, outfile, df,
                   nbVars>>

\* pd.read_csv(result_file, delimiter=":", header=None): the fields of each
\* line; the first line sets the number of columns, a later line with more
\* fields is an error and one with fewer is padded
PadTo(fields, n) == [j \in 1..n |-> IF j <= Len(fields) THEN fields[j] ELSE <<"N", "a", "N">>]

read_csv(lines) ==
    IF lines = <<>> THEN [raised |-> "EmptyDataError", columns |-> <<>>, rows |-> <<>>]
    ELSE LET ncols == Len(Split(lines[1], ":"))
         IN  IF \E i \in 1..Len(lines) : Len(Split(lines[i], ":")) > ncols
             THEN [raised |-> "ParserError", columns |-> <<>>, rows |-> <<>>]
             ELSE [raised |-> None,
                   columns |-> [j \in 1..ncols |-> Str(j - 1)],
                   rows |-> [i \in 1..Len(lines) |-> PadTo(Split(lines[i], ":"), ncols)]]

\* df.columns = ["File", "Prediction"]: ValueError unless df has two columns
set_columns(t, names) ==
    IF t.raised # None THEN t
    ELSE IF Len(names) # Len(t.columns)
         THEN [raised |-> "ValueError", columns |-> t.columns, rows |-> t.rows]
         ELSE [raised |-> None, columns |-> names, rows |-> t.rows]

File == <<"F", "i", "l", "e">>
Prediction == <<"P", "r", "e", "d", "i", "c", "t", "i", "o", "n">>

\* The retrieval cell parses the collated file of the finished step.
Retrieve ==
    /\ stepDone
    /\ df = NoTable
    /\ df' = set_columns(read_csv(outfile), <<File, Prediction>>)
    /\ UNCHANGED <<envVars, workerVars, dataset, pos, wbatch, wout, passed, outfile, stepDone,
                   nbVars>>

NextStep ==
    \/ \E n \in Nodes : WorkerInit(n)
    \/ \E n \in Nodes : TakeMiniBatch(n)
    \/ \E n \in Nodes : StepRun(n)
    \/ \E n \in Nodes : AppendRows(n)
    \/ StepFinish
    \/ Retrieve

SpecStep == InitStep /\ [][NextStep]_vars

\* C2: on each worker the model is loaded at most once; a call of run() happens
\* only on a worker whose init() has loaded the registered model
\* 'diabetes_model', and after any sequence of calls of run() the worker's
\* model is still that model.
C2_ModelLoadedOnceAndKept ==
    \A n \in Nodes :
        /\ wloads[n] <= 1
        /\ wlast[n] # NoCall =>
              /\ wloads[n] = 1
              /\ wmodel[n] = registry["diabetes_model"]

\* both workers have been initialized and have returned from run()
C2_Witness ==
    \A n \in Nodes :
        /\ wloads[n] = 1
        /\ wlast[n].raised = None
        /\ wlast[n].resultList # <<>>


\* how many entries of the list of lists ll hold x
RECURSIVE Occurrences(_, _)
Occurrences(ll, x) ==
    IF ll = <<>> THEN 0
    ELSE Cardinality({i \in 1..Len(Head(ll)) : Head(ll)[i] = x}) + Occurrences(Tail(ll), x)

\* the rows of the output file whose first field is the name of file i
RowsFor(i) == {k \in 1..Len(outfile) : Split(outfile[k], ":")[1] = FileName(i)}

\* C3: when the step has finished, every file of the input dataset has been
\* passed to run() in exactly one mini-batch, no mini-batch has more than 5
\* files, and the collated file holds exactly one row for each input file and
\* no other row, whatever the interleaving of the two nodes.
C3_EveryFileOnceOneRowEach ==
    /\ \A b \in 1..Len(passed) : Len(passed[b]) \in 1..MiniBatchSize
    /\ stepDone =>
          /\ \A i \in 1..NumFiles : Occurrences(passed, InputDataset[i]) = 1
          /\ \A i \in 1..NumFiles : Cardinality(RowsFor(i)) = 1
          /\ Len(outfile) = NumFiles

\* the step has finished, both nodes have run mini-batches, and the rows are
\* not in the order of the dataset
C3_Witness ==
    /\ stepDone
    /\ Len(passed) >= 2
    /\ \A n \in Nodes : wlast[n] # NoCall
    /\ Split(outfile[1], ":")[1] # FileName(1)

\* C4: every row run() returns splits on ':' into exactly two fields, and the
\* retrieval cell parses the collated file without error into a table with
\* the two columns File and Prediction and one table row per row of the file.
C4_TwoColumnTable ==
    /\ \A n \in Nodes : \A i \in 1..Len(wlast[n].resultList) :
          Len(Split(wlast[n].resultList[i], ":")) = 2
    /\ df # NoTable =>
          /\ df.raised = None
          /\ df.columns = <<File, Prediction>>
          /\ Len(df.rows) = Len(outfile)
          /\ \A k \in 1..Len(df.rows) :
                /\ Len(df.rows[k]) = 2
                /\ df.rows[k][1] \o <<":">> \o df.rows[k][2] = outfile[k]

\* the collated file of a finished step has been parsed
C4_Witness ==
    /\ df # NoTable
    /\ Len(df.rows) = NumFiles
    /\ \E k \in 1..Len(df.rows) : df.rows[k][2] = <<" ", "1">>
    /\ \E k \in 1..Len(df.rows) : df.rows[k][2] = <<" ", "0">>

-----------------------------------------------------------------------------
(* Spec: the notebook's cells, run top to bottom.                            *)

\* the code cells, in the order of the notebook
CellOrder == <<"connect", "train", "data", "compute", "folder", "script", "envfile",
               "runctx", "steps", "run", "results1", "publish", "endpoint", "auth",
               "rest", "poll", "results2">>

CellIndex(c) == CHOOSE i \in 1..Len(CellOrder) : CellOrder[i] = c

\* the cell after cell c
NextCell(c) ==
    IF CellIndex(c) = Len(CellOrder) THEN "done" ELSE CellOrder[CellIndex(c) + 1]

\* the cell the notebook is in: a blocking call belongs to the cell that makes it
CellOf(p) ==
    CASE p = "compute_wait" -> "compute"
      [] p = "run_wait" -> "run"
      [] p = "poll_wait" -> "poll"
      [] OTHER -> p

\* cell c has finished
Finished(c) ==
    \/ pc = "done"
    \/ pc \notin {"done", "error"} /\ CellIndex(CellOf(pc)) > CellIndex(c)
    \/ pc = "error" /\ CellIndex(uncaught.cell) > CellIndex(c)

cluster_name == "CT-915-02-JMDL"
MaxNodes == 2

\* the samples sample(n) can draw: n different rows of the table, in any order
Samples == {smp \in [1..SampleSize -> 1..TableSize] :
               \A i, j \in 1..SampleSize : i # j => smp[i] # smp[j]}

\* diabetes[[the 8 feature columns]]: the features, without PatientID and Diabetic
SelectFeatures(row) == SubSeq(row, 2, NumFeatures + 1)

\* folder with file name holding text
WriteFile(folder, name, text) ==
    [x \in DOMAIN folder \cup {name} |-> IF x = name THEN text ELSE folder[x]]

RECURSIVE saveFilesZeroBased(_, _, _)
saveFilesZeroBased(folder, smp, i) ==
    IF i >= Len(smp) THEN folder
    ELSE saveFilesZeroBased(
             WriteFile(folder, FileName(i), tofile(SelectFeatures(TableRow(smp[i + 1])))),
             smp, i + 1)

\* for i in range(n): sample[i].tofile(<batch_folder>/<i+1>.csv, sep=",")
RECURSIVE saveFiles(_, _, _)
saveFiles(folder, smp, i) ==
    IF i >= Len(smp) THEN folder
    ELSE saveFiles(
             WriteFile(folder, FileName(i + 1), tofile(SelectFeatures(TableRow(smp[i + 1])))),
             smp, i + 1)

\* default_ds.upload(src_dir, target_path, overwrite=True)
upload(store, folder) ==
    [x \in DOMAIN store \cup DOMAIN folder |->
        IF x \in DOMAIN folder THEN folder[x] ELSE store[x]]

\* the sample an earlier run of the data cell drew
PriorSample == [i \in 1..SampleSize |-> TableSize + 1 - i]

Init ==
    /\ registry = [x \in ModelNames |-> IF x = "diabetes_model" THEN Unbound ELSE OtherModel]
    /\ files = <<>>
    /\ written = <<>>
    /\ WorkersIdle
    /\ StepIdle
    /\ pc = "connect"
    /\ ops = <<>>
    /\ \E prior \in BOOLEAN :
          /\ localBatch = IF prior THEN saveFiles(<<>>, PriorSample, 0) ELSE <<>>
          /\ datastore = IF prior THEN saveFiles(<<>>, PriorSample, 0) ELSE <<>>
    /\ sampled = <<>>
    /\ batch_data_set = "unbound"
    /\ cluster \in {NoCluster,
                    [state |-> "present", max_nodes |-> 2, createdBy |-> "other"],
                    [state |-> "present", max_nodes |-> 4, createdBy |-> "other"]}
    /\ inference_cluster = "unbound"
    /\ caught = <<>>
    /\ runs = <<>>
    /\ pipeline_run = 0
    /\ published = FALSE
    /\ run_id = 0
    /\ published_pipeline_run = 0
    /\ shown = NothingShown
    /\ uncaught = NoException
    /\ trainRun = NoTrainRun
    /\ result_file = NoPath
    /\ localResults = {}
    /\ retrievals = 0
    /\ stdout = <<>>

otherVars == <<files, written, workerVars, stepVars>>
trainVars == <<trainRun>>
resultVars == <<result_file, localResults, retrievals>>

\* Workspace.from_config()
Connect ==
    /\ pc = "connect"
    /\ pc' = NextCell("connect")
    /\ ops' = Append(ops, "connect")
    /\ UNCHANGED <<registry, otherVars, trainVars, resultVars, stdout,
                   localBatch, sampled, datastore, batch_data_set,
                   cluster, inference_cluster, caught, runs, pipeline_run, published,
                   run_id, published_pipeline_run, shown, uncaught>>

\* model_file = 'diabetes_model.pkl'
model_file == <<"diabetes_model.pkl">>
\* name = 'outputs/' + model_file
UploadName == <<"outputs/">> \o model_file
\* model_path='outputs/diabetes_model.pkl'
RegisterPath == <<"outputs/", "diabetes_model.pkl">>
RegisteredNameOther == "other_model"
\* model_name='diabetes_model'
RegisteredName == "diabetes_model"

\* experiment.start_logging(), then DecisionTreeClassifier().fit: the run and
\* the model m it holds in memory
start_logging(m) == [outputs |-> {}, status |-> "Running", log |-> <<>>, fitted |-> m]

\* run.upload_file(name, path_or_stream): the model file becomes an output
upload_file(r, name) ==
    [r EXCEPT !.outputs = @ \cup {[path |-> name, model |-> r.fitted]},
              !.log = Append(@, "upload_file")]

\* run.complete()
complete(r) == [r EXCEPT !.status = "Completed", !.log = Append(@, "complete")]

\* run.register_model(model_path, model_name): raises when the run has no
\* output at model_path, and registers the model stored there otherwise
registerRaises(r, path) == ~\E o \in r.outputs : o.path = path

register_model(r, reg, path, name) ==
    [reg EXCEPT ![name] = (CHOOSE o \in r.outputs : o.path = path).model]

\* The training cell: fit a model, upload it, complete the run, register it.
Train ==
    /\ pc = "train"
    /\ \E m \in Models :
          LET uploaded == upload_file(start_logging(m), UploadName)
              completed == complete(uploaded)
          IN  IF registerRaises(completed, RegisterPath)
              THEN /\ trainRun' = completed
                   /\ pc' = "error"
                   /\ uncaught' = [cell |-> "train", exc |-> "ModelPathNotFoundException"]
                   /\ UNCHANGED <<registry, ops>>
              ELSE /\ trainRun' = [completed EXCEPT !.log = Append(@, "register_model")]
                   /\ registry' = register_model(completed, registry, RegisterPath,
                                                 RegisteredName)
                   /\ pc' = NextCell("train")
                   /\ ops' = ops \o <<"train", "register">>
                   /\ uncaught' = uncaught
    /\ UNCHANGED <<otherVars, resultVars, stdout, localBatch, sampled, datastore,
                   batch_data_set, cluster, inference_cluster, caught, runs,
                   pipeline_run, published, run_id, published_pipeline_run, shown>>

HandlerCatchesAll(cell, call) ==
    CASE cell = "compute" /\ call = "ComputeTarget" -> "create"
      [] OTHER -> "print"

\* what an except clause of the notebook does with an exception raised by
\* `call` in `cell`: "print", "create" (the cluster) or "propagate"
Handler(cell, call) ==
    CASE cell = "data" /\ call = "register" -> "print"
      [] cell = "compute" /\ call = "ComputeTarget" -> "create"
      [] cell = "compute" /\ call \in {"provisioning_configuration", "create",
                                       "wait_for_completion"} -> "print"
      [] OTHER -> "propagate"

Catch(cell, call, exc, cause) ==
    [cell |-> cell, call |-> call, exc |-> exc, cause |-> cause,
     printed |-> Handler(cell, call) = "print"]

\* Dataset.File.from_files(path=(default_ds, 'batch-data/'), validate=False):
\* a file dataset over the datastore path, not registered, built unchecked
from_files == "unregistered"

registerUnbinds(ds, raises) == IF raises THEN "unbound" ELSE "registered"

\* batch_data_set = batch_data_set.register(...) inside the try: the name is
\* rebound only when register returns
register(ds, raises) == IF raises THEN ds ELSE "registered"

\* print(ex) in the handler when register raised, then print("Done!")
dataCellPrints(raises) == (IF raises THEN <<"ServiceError">> ELSE <<>>) \o <<"Done!">>

\* The data cell: sample, save each row as a file, upload, register the dataset.
DataCell ==
    /\ pc = "data"
    /\ \E smp \in Samples :
          /\ sampled' = smp
          /\ localBatch' = saveFiles(localBatch, smp, 0)
          /\ datastore' = upload(datastore, saveFiles(localBatch, smp, 0))
    /\ \E raises \in BOOLEAN :
          /\ batch_data_set' = register(from_files, raises)
          /\ caught' = IF raises
                        THEN Append(caught, Catch("data", "register", "Exception",
                                                  "ServiceError"))
                        ELSE caught
          /\ stdout' = stdout \o dataCellPrints(raises)
    /\ pc' = NextCell("data")
    /\ ops' = Append(ops, "upload data")
    /\ UNCHANGED <<registry, otherVars, trainVars, resultVars, cluster,
                   inference_cluster, runs, pipeline_run,
                   published, run_id, published_pipeline_run, shown, uncaught>>

\* The compute cell when ComputeTarget(ws, cluster_name) finds the cluster.
ComputeFound ==
    /\ pc = "compute"
    /\ cluster.state = "present"
    /\ inference_cluster' = cluster_name
    /\ pc' = NextCell("compute")
    /\ ops' = Append(ops, "compute")
    /\ UNCHANGED <<registry, otherVars, trainVars, resultVars, stdout,
                   localBatch, sampled, datastore, batch_data_set,
                   cluster, caught, runs, pipeline_run, published, run_id,
                   published_pipeline_run, shown, uncaught>>

\* The compute cell when the cluster is not found and ComputeTarget.create
\* returns: the cell goes on to wait for the provisioning.
ComputeCreate ==
    /\ pc = "compute"
    /\ cluster.state = "absent"
    /\ caught' = Append(caught, Catch("compute", "ComputeTarget",
                                      "ComputeTargetException", "NotFound"))
    /\ cluster' = [state |-> "creating", max_nodes |-> MaxNodes, createdBy |-> "notebook"]
    /\ inference_cluster' = cluster_name
    /\ pc' = "compute_wait"
    /\ UNCHANGED <<registry, otherVars, trainVars, resultVars, stdout, ops,
                   localBatch, sampled, datastore,
                   batch_data_set, runs, pipeline_run, published, run_id,
                   published_pipeline_run, shown, uncaught>>

\* The compute cell when the cluster is not found and ComputeTarget.create
\* raises: the exception is printed and the cell finishes.
ComputeCreateFails ==
    /\ pc = "compute"
    /\ cluster.state = "absent"
    /\ caught' = caught \o <<Catch("compute", "ComputeTarget",
                                   "ComputeTargetException", "NotFound"),
                             Catch("compute", "create", "Exception", "QuotaExceeded")>>
    /\ stdout' = Append(stdout, "QuotaExceeded")
    /\ pc' = NextCell("compute")
    /\ ops' = Append(ops, "compute")
    /\ UNCHANGED <<registry, otherVars, trainVars, resultVars, localBatch,
                   sampled, datastore, batch_data_set,
                   cluster, inference_cluster, runs, pipeline_run, published, run_id,
                   published_pipeline_run, shown, uncaught>>

\* The platform finishes provisioning the cluster.
Provision ==
    /\ cluster.state = "creating"
    /\ cluster' = [cluster EXCEPT !.state = "present"]
    /\ UNCHANGED <<registry, otherVars, trainVars, resultVars, stdout, pc, ops,
                   localBatch, sampled, datastore,
                   batch_data_set, inference_cluster, caught, runs, pipeline_run,
                   published, run_id, published_pipeline_run, shown, uncaught>>

\* inference_cluster.wait_for_completion returns
ComputeWait ==
    /\ pc = "compute_wait"
    /\ cluster.state = "present"
    /\ pc' = NextCell("compute")
    /\ ops' = Append(ops, "compute")
    /\ UNCHANGED <<registry, otherVars, trainVars, resultVars, stdout,
                   localBatch, sampled, datastore, batch_data_set,
                   cluster, inference_cluster, caught, runs, pipeline_run, published,
                   run_id, published_pipeline_run, shown, uncaught>>

\* The cells that write the experiment folder, the script, the conda file, the
\* environment, the endpoint print and the authentication header.
SetupCells == {"folder", "script", "envfile", "runctx", "endpoint", "auth"}

SetupCell ==
    /\ pc \in SetupCells
    /\ pc' = NextCell(pc)
    /\ UNCHANGED <<registry, otherVars, trainVars, resultVars, stdout, ops,
                   localBatch, sampled, datastore,
                   batch_data_set, cluster, inference_cluster, caught, runs,
                   pipeline_run, published, run_id, published_pipeline_run, shown,
                   uncaught>>

\* The cell that defines the parallel run step: it reads inference_cluster and
\* batch_data_set, and raises NameError when one of them is not bound.
DefineStep ==
    /\ pc = "steps"
    /\ IF inference_cluster = "unbound" \/ batch_data_set = "unbound"
       THEN IF Handler("steps", "ParallelRunConfig") = "propagate"
            THEN /\ pc' = "error"
                 /\ uncaught' = [cell |-> "steps", exc |-> "NameError"]
                 /\ UNCHANGED <<ops, caught>>
            ELSE /\ pc' = NextCell("steps")
                 /\ caught' = Append(caught, Catch("steps", "ParallelRunConfig",
                                                   "NameError", "Unbound"))
                 /\ UNCHANGED <<ops, uncaught>>
       ELSE /\ pc' = NextCell("steps")
            /\ ops' = Append(ops, "define step")
            /\ UNCHANGED <<uncaught, caught>>
    /\ UNCHANGED <<registry, otherVars, trainVars, resultVars, stdout,
                   localBatch, sampled, datastore, batch_data_set,
                   cluster, inference_cluster, runs, pipeline_run, published,
                   run_id, published_pipeline_run, shown>>

\* the experiment the pipeline is submitted to
SubmitExperiment == "mslearn-diabetes-batch"
\* the ExperimentName of the JSON payload of the POST
PayloadExperiment == "mslearn-diabetes-batch"
PollOtherExperiment == "mslearn-train-diabetes"
\* the experiment the notebook looks the run up in
PollExperiment == "mslearn-diabetes-batch"

\* output_dir = OutputFileDatasetConfig(name='inferences')
output_dir == "inferences"

\* ParallelRunStep(name='batch-score-diabetes', ..., output=output_dir, ...)
parallelrun_step == [step |-> "batch-score-diabetes", output |-> output_dir]

PipelineStepsTwo == <<[step |-> "prepare-data", output |-> "prepared"], parallelrun_step>>

\* Pipeline(workspace=ws, steps=[parallelrun_step])
PipelineSteps == <<parallelrun_step>>

\* a pipeline run that has just been started: one child run for each step
NewRun(exp, via) ==
    [exp |-> exp, via |-> via, status |-> "Running", children |-> PipelineSteps,
     model |-> Unbound, rows |-> <<>>]

\* the files of the datastore folder as a node sees them, and their listing
Mounted(store) == [p \in {MountDir \o x : x \in DOMAIN store} |->
                      store[SubSeq(p, Len(MountDir) + 1, Len(p))]]

RECURSIVE Listing(_, _)
Listing(store, i) ==
    IF FileName(i) \notin DOMAIN store THEN <<>>
    ELSE <<MountDir \o FileName(i)>> \o Listing(store, i + 1)

waitReturnsAtOnce(r) == TRUE

\* wait_for_completion returns when the run has reached a final state
waitReturns(r) == runs[r].status \in {"Completed", "Failed"}

\* Experiment(ws, 'mslearn-diabetes-batch').submit(pipeline)
Submit ==
    /\ pc = "run"
    /\ runs' = Append(runs, NewRun(SubmitExperiment, "sdk"))
    /\ pipeline_run' = Len(runs) + 1
    /\ pc' = "run_wait"
    /\ UNCHANGED <<registry, otherVars, trainVars, resultVars, stdout, ops,
                   localBatch, sampled, datastore,
                   batch_data_set, cluster, inference_cluster, caught, published,
                   run_id, published_pipeline_run, shown, uncaught>>

\* The platform runs a pipeline to its end: the step scores the files of the
\* dataset with the registered model and collates the rows.
RunCompletes(r) ==
    /\ r \in 1..Len(runs)
    /\ runs[r].status = "Running"
    /\ LET res == run(init(registry), Mounted(datastore), Listing(datastore, 1))
       IN  runs' = [runs EXCEPT ![r].status = "Completed",
                                ![r].model = init(registry),
                                ![r].rows = res.resultList]
    /\ UNCHANGED <<registry, otherVars, trainVars, resultVars, stdout, pc, ops,
                   localBatch, sampled, datastore,
                   batch_data_set, cluster, inference_cluster, caught, pipeline_run,
                   published, run_id, published_pipeline_run, shown, uncaught>>

\* The platform fails a pipeline run.
RunFails(r) ==
    /\ r \in 1..Len(runs)
    /\ runs[r].status = "Running"
    /\ runs' = [runs EXCEPT ![r].status = "Failed"]
    /\ UNCHANGED <<registry, otherVars, trainVars, resultVars, stdout, pc, ops,
                   localBatch, sampled, datastore,
                   batch_data_set, cluster, inference_cluster, caught, pipeline_run,
                   published, run_id, published_pipeline_run, shown, uncaught>>

\* pipeline_run.wait_for_completion(show_output=True): returns for a completed
\* run and raises for a failed one
RunWait ==
    /\ pc = "run_wait"
    /\ waitReturns(pipeline_run)
    /\ IF runs[pipeline_run].status = "Failed"
       THEN /\ pc' = "error"
            /\ uncaught' = [cell |-> "run", exc |-> "ActivityFailedException"]
            /\ ops' = ops
       ELSE /\ pc' = NextCell("run")
            /\ uncaught' = uncaught
            /\ ops' = Append(ops, "run")
    /\ UNCHANGED <<registry, otherVars, trainVars, resultVars, stdout,
                   localBatch, sampled, datastore, batch_data_set,
                   cluster, inference_cluster, caught, runs, pipeline_run, published,
                   run_id, published_pipeline_run, shown>>

\* r.get_children(): the child runs of a pipeline run, one for each step
get_children(r) == runs[r].children

\* the name the retrieval cells ask the output by
RetrievedOutput == "inferences"

\* child.get_output_data(name): raises unless the step declared an output of
\* that name
get_output_data(child, name) ==
    [raised |-> name # child.output, step |-> child.step, output |-> name]

\* 'parallel_run_step.txt', as a stem and an extension
ResultFileName == <<"parallel_run_step", ".txt">>

\* file.endswith(suffix)
endswith(file, suffix) ==
    /\ Len(file) >= Len(suffix)
    /\ SubSeq(file, Len(file) - Len(suffix) + 1, Len(file)) = suffix

\* shutil.rmtree('diabetes-results', ignore_errors=True): the folder, which
\* the notebook itself wrote, is removed; a missing folder is no error
rmtree(local) == {}

\* What the download of the step's output of run r may deliver: the results
\* file with the collated rows and a log, the results file and a second file
\* whose name ends the same way, or no results file at all.
Downloads(r) ==
    LET res == [dir |-> r, name |-> ResultFileName, rows |-> runs[r].rows]
        second == [dir |-> r, name |-> <<"old_">> \o ResultFileName, rows |-> <<>>]
        log == [dir |-> r, name |-> <<"job_log", ".txt">>, rows |-> <<>>]
    IN  {{res, log}, {res, second}, {log}}

\* .download(local_path='diabetes-results')
download(local, delivered) == local \cup delivered

\* The os.walk loop: result_file is rebound for each file whose name ends in
\* parallel_run_step.txt, so it ends as one of them (the listing order is the
\* file system's), and is left as it was when there is none.
walk(bound, local) ==
    LET matches == {f \in local : endswith(f.name, ResultFileName)}
    IN  IF matches = {} THEN {bound}
        ELSE {[dir |-> f.dir, name |-> f.name] : f \in matches}

\* pd.read_csv(result_file, delimiter=":", header=None)
readResults(path, local) ==
    IF path = NoPath THEN [raised |-> "NameError", rows |-> <<>>]
    ELSE IF ~\E f \in local : f.dir = path.dir /\ f.name = path.name
    THEN [raised |-> "FileNotFoundError", rows |-> <<>>]
    ELSE [raised |-> None,
          rows |-> (CHOOSE f \in local : f.dir = path.dir /\ f.name = path.name).rows]

\* A retrieval cell reading run r: remove the local folder, take the first
\* child run, get its output by name, download it, find the results file,
\* read it and display it.
retrieve(cell, r, op) ==
    /\ pc = cell
    /\ retrievals' = retrievals + 1
    /\ LET out == get_output_data(Head(get_children(r)), RetrievedOutput)
       IN  IF out.raised
           THEN /\ localResults' = rmtree(localResults)
                /\ pc' = "error"
                /\ uncaught' = [cell |-> cell, exc |-> "OutputNotFound"]
                /\ UNCHANGED <<result_file, shown, ops>>
           ELSE \E d \in Downloads(r) :
                  LET local == download(rmtree(localResults), d)
                  IN  \E p \in walk(result_file, local) :
                        LET t == readResults(p, local)
                        IN  /\ localResults' = local
                            /\ result_file' = p
                            /\ IF t.raised # None
                               THEN /\ pc' = "error"
                                    /\ uncaught' = [cell |-> cell, exc |-> t.raised]
                                    /\ UNCHANGED <<shown, ops>>
                               ELSE /\ shown' = [run |-> r, step |-> out.step,
                                                 output |-> out.output, file |-> p,
                                                 rows |-> t.rows]
                                    /\ pc' = NextCell(cell)
                                    /\ ops' = Append(ops, op)
                                    /\ uncaught' = uncaught
    /\ UNCHANGED <<registry, otherVars, trainVars, stdout, localBatch, sampled,
                   datastore, batch_data_set, cluster, inference_cluster, caught,
                   runs, pipeline_run, published, run_id, published_pipeline_run>>

\* the run whose first step the first retrieval cell reads
FirstResultsRun == pipeline_run

\* the run whose first step the final retrieval cell reads
FinalResultsRun == pipeline_run

\* The retrieval cell after the first run.
ResultsFirst == retrieve("results1", FirstResultsRun, "download first")

\* pipeline_run.publish_pipeline(...)
Publish ==
    /\ pc = "publish"
    /\ published' = TRUE
    /\ pc' = NextCell("publish")
    /\ ops' = Append(ops, "publish")
    /\ UNCHANGED <<registry, otherVars, trainVars, resultVars, stdout,
                   localBatch, sampled, datastore, batch_data_set,
                   cluster, inference_cluster, caught, runs, pipeline_run, run_id,
                   published_pipeline_run, shown, uncaught>>

\* requests.post(rest_endpoint, ...): the endpoint starts a run in the
\* experiment of the payload and answers with its id; when it answers with an
\* error, response.json()["Id"] raises KeyError
RestCall ==
    /\ pc = "rest"
    /\ published
    /\ \/ /\ runs' = Append(runs, NewRun(PayloadExperiment, "rest"))
          /\ run_id' = Len(runs) + 1
          /\ pc' = NextCell("rest")
          /\ ops' = Append(ops, "rest")
          /\ uncaught' = uncaught
       \/ /\ pc' = "error"
          /\ uncaught' = [cell |-> "rest", exc |-> "KeyError"]
          /\ UNCHANGED <<runs, run_id, ops>>
    /\ UNCHANGED <<registry, otherVars, trainVars, resultVars, stdout,
                   localBatch, sampled, datastore, batch_data_set,
                   cluster, inference_cluster, caught, pipeline_run, published,
                   published_pipeline_run, shown>>

\* PipelineRun(ws.experiments['mslearn-diabetes-batch'], run_id): the run of
\* that id in that experiment; an exception when the experiment has no such run
Poll ==
    /\ pc = "poll"
    /\ IF runs[run_id].exp = PollExperiment
       THEN /\ published_pipeline_run' = run_id
            /\ pc' = "poll_wait"
            /\ uncaught' = uncaught
       ELSE /\ published_pipeline_run' = published_pipeline_run
            /\ pc' = "error"
            /\ uncaught' = [cell |-> "poll", exc |-> "RunNotFound"]
    /\ UNCHANGED <<registry, otherVars, trainVars, resultVars, stdout, ops,
                   localBatch, sampled, datastore,
                   batch_data_set, cluster, inference_cluster, caught, runs,
                   pipeline_run, published, run_id, shown>>

\* published_pipeline_run.wait_for_completion(show_output=True)
PollWait ==
    /\ pc = "poll_wait"
    /\ waitReturns(published_pipeline_run)
    /\ IF runs[published_pipeline_run].status = "Failed"
       THEN /\ pc' = "error"
            /\ uncaught' = [cell |-> "poll", exc |-> "ActivityFailedException"]
            /\ ops' = ops
       ELSE /\ pc' = NextCell("poll")
            /\ uncaught' = uncaught
            /\ ops' = Append(ops, "poll")
    /\ UNCHANGED <<registry, otherVars, trainVars, resultVars, stdout,
                   localBatch, sampled, datastore, batch_data_set,
                   cluster, inference_cluster, caught, runs, pipeline_run, published,
                   run_id, published_pipeline_run, shown>>

\* The final retrieval cell.
ResultsFinal == retrieve("results2", FinalResultsRun, "download results")

Next ==
    \/ Connect
    \/ Train
    \/ DataCell
    \/ ComputeFound
    \/ ComputeCreate
    \/ ComputeCreateFails
    \/ Provision
    \/ ComputeWait
    \/ SetupCell
    \/ DefineStep
    \/ Submit
    \/ \E r \in 1..Len(runs) : RunCompletes(r)
    \/ \E r \in 1..Len(runs) : RunFails(r)
    \/ RunWait
    \/ ResultsFirst
    \/ Publish
    \/ RestCall
    \/ Poll
    \/ PollWait
    \/ ResultsFinal

Spec == Init /\ [][Next]_vars

\* C5: the POST returns a run id while the run it started is still running;
\* the id names a run started through the endpoint in the experiment of the
\* payload, 'mslearn-diabetes-batch', which is the experiment the notebook
\* looks the run up in, so that the lookup finds it; and the poll cell finishes
\* only when that run has completed.
C5_RestRunFoundAndAwaited ==
    /\ [](/\ run_id # 0 =>
               /\ run_id \in 1..Len(runs)
               /\ runs[run_id].via = "rest"
               /\ runs[run_id].exp = "mslearn-diabetes-batch"
               /\ runs[run_id].exp = PollExperiment
          /\ uncaught.exc # "RunNotFound"
          /\ published_pipeline_run # 0 => published_pipeline_run = run_id
          /\ Finished("poll") =>
               /\ published_pipeline_run = run_id
               /\ runs[run_id].status = "Completed")
    /\ [][run_id' # run_id => runs'[run_id'].status = "Running"]_vars

\* the poll cell has finished for a run started through the endpoint
C5_Witness ==
    /\ pc = "results2"
    /\ run_id # pipeline_run
    /\ runs[published_pipeline_run].via = "rest"
    /\ runs[published_pipeline_run].status = "Completed"

\* C6: when the notebook has finished, the results the final retrieval cell
\* displays are the output 'inferences' of the run started through the REST
\* endpoint, the run that run_id names.
C6_FinalResultsOfRestRun ==
    pc = "done" =>
        /\ shown.run = run_id
        /\ shown.output = "inferences"

\* the order of the operations as the notebook's overview gives it
ClaimedOrder == <<"connect", "train", "register", "upload data", "compute",
                  "define step", "run", "publish", "rest", "poll", "download results">>

\* the operations that have finished, without the retrieval after the first run
RECURSIVE Listed(_)
Listed(o) ==
    IF o = <<>> THEN <<>>
    ELSE IF Head(o) = "download first" THEN Listed(Tail(o))
    ELSE <<Head(o)>> \o Listed(Tail(o))

\* C7: the operations finish in the order connect, train, register, upload
\* data, compute, define step, run, publish, REST call, poll, download results,
\* none skipped and none repeated; the pipeline is published only when the
\* first pipeline run has completed, and the endpoint is called only when the
\* pipeline has been published.
C7_OperationsInOrder ==
    /\ Len(Listed(ops)) <= Len(ClaimedOrder)
    /\ Listed(ops) = SubSeq(ClaimedOrder, 1, Len(Listed(ops)))
    /\ published => pipeline_run # 0 /\ runs[pipeline_run].status = "Completed"
    /\ run_id # 0 => published
    /\ pc = "done" => Listed(ops) = ClaimedOrder

\* the notebook has run to its end
C7_Witness ==
    /\ pc = "done"
    /\ Len(ops) = Len(ClaimedOrder) + 1

\* the notebook attempted to create the cluster
CreateAttempted ==
    \/ cluster.createdBy = "notebook"
    \/ \E i \in 1..Len(caught) : caught[i].call = "create"

\* the cluster was not there when the compute cell looked for it
ClusterWasAbsent == \E i \in 1..Len(caught) : caught[i].call = "ComputeTarget"

\* C8: when the compute cell has finished, either the cluster existed, is used
\* and no creation was attempted, or it did not exist and a cluster of at most
\* 2 nodes has been created under the name and is provisioned.
C8_GetOrCreate ==
    Finished("compute") =>
        IF ClusterWasAbsent
        THEN /\ cluster.state = "present"
             /\ cluster.createdBy = "notebook"
             /\ cluster.max_nodes <= 2
             /\ inference_cluster = cluster_name
        ELSE /\ ~CreateAttempted
             /\ cluster.state = "present"
             /\ inference_cluster = cluster_name

\* C9 as stated: every exception the notebook catches was raised because the
\* resource is already there, is caught in the cluster or the dataset cell,
\* and is printed.
C9_OnlyAlreadyExistsCaught ==
    \A i \in 1..Len(caught) :
        /\ caught[i].cell \in {"compute", "data"}
        /\ caught[i].cause = "AlreadyExists"
        /\ caught[i].printed

\* C9, amended: the notebook catches an exception in three places only. In
\* the dataset cell an exception raised by registering the dataset is caught
\* and printed. In the cluster cell the ComputeTargetException raised because
\* the cluster is not found is caught and not printed (the cell goes on to
\* create the cluster), and an exception raised by creating it is caught and
\* printed. The cell finishes in each case; an exception raised anywhere else
\* is not caught and stops the notebook.
C9_CaughtExceptions ==
    /\ \A i \in 1..Len(caught) :
          \/ /\ caught[i].cell = "data"
             /\ caught[i].call = "register"
             /\ caught[i].printed
          \/ /\ caught[i].cell = "compute"
             /\ caught[i].call = "ComputeTarget"
             /\ caught[i].exc = "ComputeTargetException"
             /\ caught[i].cause = "NotFound"
             /\ ~caught[i].printed
          \/ /\ caught[i].cell = "compute"
             /\ caught[i].call = "create"
             /\ caught[i].printed
    /\ uncaught.cell \notin {"data", "compute"}
    /\ pc = "error" <=> uncaught # NoException
    /\ (inference_cluster = "unbound" /\ Finished("steps")) => pc = "error"

\* the three except clauses have each caught an exception, and the notebook
\* went on to the cell that defines the step
C9_Witness ==
    /\ \E i \in 1..Len(caught) : caught[i].call = "register"
    /\ \E i \in 1..Len(caught) : caught[i].call = "ComputeTarget"
    /\ \E i \in 1..Len(caught) : caught[i].call = "create"
    /\ Finished("compute")

\* C10: when the data cell has finished, the local batch-data folder holds
\* exactly the files 1.csv to <n>.csv, pairwise distinct names, and file i
\* holds the 8 feature values of the i-th row sampled by this run, separated
\* by commas, without the Diabetic label.
C10_OneFilePerSampledRow ==
    Finished("data") =>
        /\ Len(sampled) = SampleSize
        /\ DOMAIN localBatch = {Str(i) \o CSV : i \in 1..SampleSize}
        /\ Cardinality(DOMAIN localBatch) = SampleSize
        /\ \A i \in 1..SampleSize :
              LET fields == Split(localBatch[Str(i) \o CSV], ",")
              IN  /\ Len(fields) = 8
                  /\ \A j \in 1..8 : fields[j] = Str(FeatureRow(sampled[i])[j])
        /\ \A i, j \in 1..SampleSize : i # j => sampled[i] # sampled[j]

\* the data cell has finished and two of its files differ
C10_Witness ==
    /\ Finished("data")
    /\ localBatch[Str(1) \o CSV] # localBatch[Str(2) \o CSV]
    /\ sampled # PriorSample

\* C13: when the training cell has finished, the model file has been uploaded
\* to the run's outputs, then the run completed, then the model registered
\* from the uploaded path, in this order; it is registered under the name
\* init() loads, so every pipeline run that completes has scored with the
\* model this notebook fitted and registered.
C13_RegisteredModelIsScored ==
    /\ uncaught.cell # "train"
    /\ Finished("train") =>
          /\ trainRun.log = <<"upload_file", "complete", "register_model">>
          /\ trainRun.status = "Completed"
          /\ trainRun.fitted \in Models
          /\ [path |-> <<"outputs/", "diabetes_model.pkl">>, model |-> trainRun.fitted]
                \in trainRun.outputs
          /\ registry["diabetes_model"] = trainRun.fitted
          /\ init(registry) = trainRun.fitted
    /\ \A r \in 1..Len(runs) :
          runs[r].status = "Completed" =>
              /\ runs[r].model = trainRun.fitted
              /\ Len(runs[r].rows) = SampleSize

\* both pipeline runs have completed and scored the uploaded files
C13_Witness ==
    /\ Len(runs) = 2
    /\ \A r \in 1..Len(runs) : runs[r].status = "Completed" /\ runs[r].rows # <<>>

\* C14: the data cell never fails on a registration error. Once it has
\* finished, "Done!" has been printed and batch_data_set is bound; when
\* register raised, the exception was printed just before "Done!" and
\* batch_data_set is still the unregistered file dataset. So the parallel run
\* step is never refused for an undefined input: a NameError in the step cell
\* comes from inference_cluster alone.
C14_DatasetBoundAfterRegisterFails ==
    /\ uncaught.cell # "data"
    /\ Finished("data") =>
          /\ batch_data_set \in {"registered", "unregistered"}
          /\ \E i \in 1..Len(stdout) :
                /\ stdout[i] = "Done!"
                /\ (\E k \in 1..Len(caught) : caught[k].cell = "data") =>
                      /\ batch_data_set = "unregistered"
                      /\ i > 1
                      /\ stdout[i - 1] = "ServiceError"
    /\ \A k \in 1..Len(caught) : caught[k].cell = "data" => caught[k].printed
    /\ uncaught.cell = "steps" => inference_cluster = "unbound"
    /\ (\E i \in 1..Len(ops) : ops[i] = "define step") => batch_data_set # "unbound"

\* register raised in the data cell and the step was defined all the same
C14_Witness ==
    /\ \E k \in 1..Len(caught) : caught[k].cell = "data" /\ caught[k].call = "register"
    /\ batch_data_set = "unregistered"
    /\ \E i \in 1..Len(ops) : ops[i] = "define step"

\* C15: once the compute cell has finished, on each of its paths (cluster
\* found, cluster created, creation failed), inference_cluster names a
\* provisioned compute target with the configured name, and the parallel run
\* configuration is never refused for want of one.
C15_ClusterUsableOnAllPaths ==
    /\ Finished("compute") =>
          /\ inference_cluster = cluster_name
          /\ cluster.state = "present"
    /\ ~(uncaught.cell = "steps" /\ uncaught.exc = "NameError")

\* C11: every pipeline run has exactly one child run, the batch-score-diabetes
\* step with the output 'inferences' it was declared with. What a retrieval
\* cell displays was taken from that child of the submitted run, under that
\* name, after the run had completed; asking for the output never fails.
C11_FirstChildIsTheScoringStep ==
    /\ \A r \in 1..Len(runs) :
          get_children(r) = <<[step |-> "batch-score-diabetes", output |-> "inferences"]>>
    /\ uncaught.exc # "OutputNotFound"
    /\ retrievals > 0 => runs[pipeline_run].status = "Completed"
    /\ shown.run # 0 =>
          /\ shown.run = pipeline_run
          /\ shown.step = "batch-score-diabetes"
          /\ shown.output = output_dir
          /\ runs[shown.run].status = "Completed"
          /\ shown.rows \in {runs[shown.run].rows, <<>>}

\* the first retrieval cell has displayed the rows of the submitted run
C11_Witness ==
    /\ pc = "publish"
    /\ retrievals = 1
    /\ shown.run = pipeline_run
    /\ shown.file.name = ResultFileName
    /\ Len(shown.rows) = SampleSize

\* C12: after any retrieval cell, the path result_file that the cell handed to
\* read_csv names a file ending in parallel_run_step.txt that the cell's own
\* download delivered, also when that download held no such file or two.
C12_ParsedFileIsOfCurrentDownload ==
    (retrievals > 0 /\ result_file # NoPath) =>
        /\ endswith(result_file.name, ResultFileName)
        /\ \E f \in localResults : f.dir = result_file.dir /\ f.name = result_file.name

====
